---- MODULE Spec2Model ----
(***************************************************************************)
(* SceneManager (Source/SceneManager.cpp): the texture registry, the       *)
(* material table and the OpenGL texture state they drive.                 *)
(*                                                                         *)
(* The OpenGL context is modelled by the set of live texture objects, the  *)
(* GL_TEXTURE_2D binding of every texture unit and the active unit.        *)
(* Floats are kept as integers in tenths (0.2f is 2), shininess as is.     *)
(***************************************************************************)
EXTENDS Integers, Sequences, FiniteSets, TLC

VARIABLES
    m_textureIDs,       \* TEXTURE_INFO m_textureIDs[16]: slot -> [tag, ID]
    m_loadedTextures,   \* int m_loadedTextures
    m_objectMaterials,  \* std::vector<OBJECT_MATERIAL>
    stbi_flip,          \* stb_image's global flip-on-load flag
    glTextures,         \* names of the live GL texture objects
    glBound,            \* texture unit -> name bound to GL_TEXTURE_2D (0: none)
    glActive,           \* the active texture unit
    glDeleteCalls,      \* name -> number of glDeleteTextures calls naming it
    pc,                 \* "alive", "destroyed", or after the overflow "crashed" / "corrupted"
    releases,           \* number of DestroyGLTextures calls made so far
    released,           \* TRUE from a DestroyGLTextures call to the next successful load
    loadOrder,          \* history: the records of the successful loads, in order
    oobWrite,           \* history: indices outside the array that were written
    last,               \* the last call: its name, arguments and result
    m_pShaderManager,   \* "NULL" or the shader manager given to the constructor
    uniforms,           \* the uniforms of the shader program
    nullDeref,          \* history: a call was made through the NULL m_pShaderManager
    lastMode,           \* history: "color" / "texture", the later of SetShaderColor / SetShaderTexture
    draws               \* history: the draw calls of the last RenderScene

vars == <<m_textureIDs, m_loadedTextures, m_objectMaterials, stbi_flip,
          glTextures, glBound, glActive, glDeleteCalls, pc, releases,
          released, loadOrder, oobWrite, last,
          m_pShaderManager, uniforms, nullDeref, lastMode, draws>>

\* what the texture and material operations leave alone
renderVars == <<m_pShaderManager, uniforms, nullDeref, lastMode, draws>>

---------------------------------------------------------------------------
(* Program constants *)

\* the size of m_textureIDs and the number of texture units the scene uses
MaxTextures == 16

(* Bounds of the model *)

\* Spec: successful loads explored
MaxLoaded == 3
\* texture objects left behind by loads of unsupported images
MaxLeaked == 1
\* explicit DestroyGLTextures calls before the destructor
MaxReleases == 2
\* calls of LoadSceneMaterials
MaxMaterialLoads == 1
\* SpecMaterial: materials pushed one by one
MaxMaterials == 3

Slots == 0 .. (MaxTextures - 1)

\* the tags given to CreateGLTexture, and the tags looked up
Tags == {"floor", "screen"}
QueryTags == Tags \cup {"/0", "nonexistent"}
\* the one tag of the capacity run
CapTag == "floor"

\* image files: what stbi_load(filename, ..., &colorChannels, 0) makes of each
Files == {"rgb.jpg", "rgba.png", "greyalpha.png", "missing.jpg"}

stbi_load(filename) ==
    CASE filename = "rgb.jpg"       -> [image |-> TRUE,  colorChannels |-> 3]
      [] filename = "rgba.png"      -> [image |-> TRUE,  colorChannels |-> 4]
      [] filename = "greyalpha.png" -> [image |-> TRUE,  colorChannels |-> 2]
      [] OTHER                      -> [image |-> FALSE, colorChannels |-> 0]

---------------------------------------------------------------------------
(* OpenGL *)

\* glGenTextures(1, &textureID): the lowest name not in use
glGenTextures(textures) ==
    CHOOSE n \in 1 .. (Cardinality(textures) + 1) :
        /\ n \notin textures
        /\ \A m \in 1 .. (n - 1) : m \in textures

\* glBindTexture(GL_TEXTURE_2D, name) on the active unit; a name that is
\* neither 0 nor a live texture is GL_INVALID_OPERATION and binds nothing
glBindTexture(textures, bound, active, name) ==
    IF name = 0 \/ name \in textures
    THEN [bound EXCEPT ![active] = name]
    ELSE bound

AddCall(calls, name) ==
    IF name \in DOMAIN calls
    THEN [calls EXCEPT ![name] = @ + 1]
    ELSE calls @@ (name :> 1)

\* glDeleteTextures(1, &name): a live texture is deleted and every unit
\* bound to it reverts to 0; any other name is silently ignored
glDeleteTextures(gl, name) ==
    [textures |-> gl.textures \ {name},
     bound    |-> IF name \in gl.textures
                  THEN [u \in DOMAIN gl.bound |->
                           IF gl.bound[u] = name THEN 0 ELSE gl.bound[u]]
                  ELSE gl.bound,
     calls    |-> AddCall(gl.calls, name)]

---------------------------------------------------------------------------
(* Materials *)

Material(tag, ambientColor, ambientStrength, diffuseColor, specularColor, shininess) ==
    [tag |-> tag, ambientColor |-> ambientColor,
     ambientStrength |-> ambientStrength, diffuseColor |-> diffuseColor,
     specularColor |-> specularColor, shininess |-> shininess]

\* the five materials LoadSceneMaterials pushes, in order
SceneMaterials ==
    << Material("floorMaterial",    <<2, 2, 2>>, 5, <<8, 8, 8>>, <<10, 10, 10>>, 32),
       Material("deskMaterial",     <<3, 3, 3>>, 5, <<6, 3, 3>>, <<5, 5, 5>>,    16),
       Material("keyboardMaterial", <<2, 2, 2>>, 5, <<7, 7, 7>>, <<10, 10, 10>>, 32),
       Material("monitorMaterial",  <<2, 2, 2>>, 5, <<9, 9, 9>>, <<10, 10, 10>>, 128),
       Material("screenMaterial",   <<1, 1, 1>>, 5, <<5, 5, 5>>, <<10, 10, 10>>, 256) >>

MaterialTags == {"deskMaterial", "nonexistent"}

\* materials pushed one by one: the scene's desk and screen materials and a
\* second material under the desk's tag
MaterialInputs ==
    { SceneMaterials[2], SceneMaterials[5],
      Material("deskMaterial", <<4, 4, 4>>, 7, <<1, 2, 3>>, <<9, 9, 9>>, 64) }

\* what a caller's OBJECT_MATERIAL may hold before the lookup: the local in
\* SetShaderMaterial is not initialised
OutMaterials ==
    { Material("", <<0, 0, 0>>, 0, <<0, 0, 0>>, <<0, 0, 0>>, 0),
      Material("", <<7, 1, 4>>, 9, <<3, 3, 8>>, <<6, 6, 6>>, 77) }

NoMaterial == Material("", <<0, 0, 0>>, 0, <<0, 0, 0>>, <<0, 0, 0>>, 0)

---------------------------------------------------------------------------
(* Lookups *)

RECURSIVE FindTextureIDLoop(_, _, _, _, _, _)
FindTextureIDLoop(ids, n, tag, index, bFound, textureID) ==
    IF (index < n) /\ (bFound = FALSE)
    THEN IF ids[index].tag = tag
         THEN FindTextureIDLoop(ids, n, tag, index, TRUE, ids[index].ID)
         ELSE FindTextureIDLoop(ids, n, tag, index + 1, bFound, textureID)
    ELSE textureID

RECURSIVE FindTextureIDLast(_, _, _, _, _)
FindTextureIDLast(ids, n, tag, index, textureID) ==
    IF index < n
    THEN FindTextureIDLast(ids, n, tag, index + 1,
                           IF ids[index].tag = tag THEN ids[index].ID ELSE textureID)
    ELSE textureID

\* a scan that does not stop at the first match
FindTextureIDIn_LastMatch(ids, n, tag) == FindTextureIDLast(ids, n, tag, 0, -1)

FindTextureIDIn(ids, n, tag) == FindTextureIDLoop(ids, n, tag, 0, FALSE, -1)

FindTextureID(tag) == FindTextureIDIn(m_textureIDs, m_loadedTextures, tag)

RECURSIVE FindTextureSlotLoop(_, _, _, _, _, _)
FindTextureSlotLoop(ids, n, tag, index, bFound, textureSlot) ==
    IF (index < n) /\ (bFound = FALSE)
    THEN IF ids[index].tag = tag
         THEN FindTextureSlotLoop(ids, n, tag, index, TRUE, index)
         ELSE FindTextureSlotLoop(ids, n, tag, index + 1, bFound, textureSlot)
    ELSE textureSlot

\* a scan over the whole array instead of the loaded records
FindTextureSlotIn_WholeArray(ids, n, tag) ==
    FindTextureSlotLoop(ids, MaxTextures, tag, 0, FALSE, -1)

FindTextureSlotIn(ids, n, tag) == FindTextureSlotLoop(ids, n, tag, 0, FALSE, -1)

FindTextureSlot(tag) == FindTextureSlotIn(m_textureIDs, m_loadedTextures, tag)

RECURSIVE FindMaterialLoop(_, _, _, _, _)
FindMaterialLoop(materials, tag, index, bFound, material) ==
    IF (index < Len(materials)) /\ (bFound = FALSE)
    THEN IF materials[index + 1].tag = tag
         THEN FindMaterialLoop(materials, tag, index, TRUE,
                  [material EXCEPT
                      !.ambientColor    = materials[index + 1].ambientColor,
                      !.ambientStrength = materials[index + 1].ambientStrength,
                      !.diffuseColor    = materials[index + 1].diffuseColor,
                      !.specularColor   = materials[index + 1].specularColor,
                      !.shininess       = materials[index + 1].shininess])
         ELSE FindMaterialLoop(materials, tag, index + 1, bFound, material)
    ELSE material

RECURSIVE FindMaterialLast(_, _, _, _)
FindMaterialLast(materials, tag, index, material) ==
    IF index < Len(materials)
    THEN FindMaterialLast(materials, tag, index + 1,
             IF materials[index + 1].tag = tag
             THEN [material EXCEPT
                      !.ambientColor    = materials[index + 1].ambientColor,
                      !.ambientStrength = materials[index + 1].ambientStrength,
                      !.diffuseColor    = materials[index + 1].diffuseColor,
                      !.specularColor   = materials[index + 1].specularColor,
                      !.shininess       = materials[index + 1].shininess]
             ELSE material)
    ELSE material

\* a scan that does not stop at the first match
FindMaterial_LastMatch(materials, tag, material) ==
    IF Len(materials) = 0
    THEN [ret |-> FALSE, material |-> material]
    ELSE [ret |-> TRUE,
          material |-> FindMaterialLast(materials, tag, 0, material)]

\* a lookup without the test for the empty table
FindMaterial_NoEmptyTest(materials, tag, material) ==
    [ret |-> TRUE,
     material |-> FindMaterialLoop(materials, tag, 0, FALSE, material)]

\* the return value and the caller's material after the call
FindMaterial(materials, tag, material) ==
    IF Len(materials) = 0
    THEN [ret |-> FALSE, material |-> material]
    ELSE [ret |-> TRUE,
          material |-> FindMaterialLoop(materials, tag, 0, FALSE, material)]

---------------------------------------------------------------------------
(* The shader program *)

\* the pShaderManager a SceneManager may be constructed with
ShaderManagers == {"NULL", "shader"}

ZeroMatrix == << <<0, 0, 0, 0>>, <<0, 0, 0, 0>>, <<0, 0, 0, 0>>, <<0, 0, 0, 0>> >>

\* the five material.* uniforms that hold a material
MaterialUniforms(material) ==
    [ambientColor    |-> material.ambientColor,
     ambientStrength |-> material.ambientStrength,
     diffuseColor    |-> material.diffuseColor,
     specularColor   |-> material.specularColor,
     shininess       |-> material.shininess]

\* a linked program's uniforms start as zero
InitialUniforms ==
    [model              |-> ZeroMatrix,
     objectColor        |-> <<0, 0, 0, 0>>,
     objectTexture      |-> 0,
     bUseTexture        |-> FALSE,
     bUseLighting       |-> FALSE,
     UVscale            |-> <<0, 0>>,
     material           |-> MaterialUniforms(NoMaterial),
     globalAmbientColor |-> <<0, 0, 0>>,
     lightSources       |-> << >>]

---------------------------------------------------------------------------
(* The state after construction *)

Call(op, file, tag, ok, val, mat) ==
    [op |-> op, file |-> file, tag |-> tag, ok |-> ok, val |-> val, mat |-> mat]

Init ==
    /\ m_textureIDs = [i \in Slots |-> [tag |-> "/0", ID |-> -1]]
    /\ m_loadedTextures = 0
    /\ m_objectMaterials = << >>
    /\ stbi_flip = FALSE
    /\ glTextures = {}
    /\ glBound = [u \in Slots |-> 0]
    /\ glActive = 0
    /\ glDeleteCalls = << >>
    /\ pc = "alive"
    /\ releases = 0
    /\ released = FALSE
    /\ loadOrder = << >>
    /\ oobWrite = {}
    /\ last = Call("SceneManager", "", "", TRUE, 0, NoMaterial)
    /\ m_pShaderManager \in ShaderManagers
    /\ uniforms = InitialUniforms
    /\ nullDeref = FALSE
    /\ lastMode = "none"
    /\ draws = << >>

---------------------------------------------------------------------------
(* CreateGLTexture *)

\* if (image)
ImageLoaded_Always(img) == TRUE

ImageLoaded(img) == img.image

\* colorChannels == 3, else colorChannels == 4, else give up
ChannelsSupported_Any(colorChannels) == TRUE

ChannelsSupported(colorChannels) == (colorChannels = 3) \/ (colorChannels = 4)

\* m_textureIDs[m_loadedTextures].ID = textureID; .tag = tag
RegisterTexture_FirstSlot(ids, n, textureID, tag) ==
    [ids EXCEPT ![0] = [tag |-> tag, ID |-> textureID]]

RegisterTexture(ids, n, textureID, tag) ==
    [ids EXCEPT ![n] = [tag |-> tag, ID |-> textureID]]

\* what the write to m_textureIDs[16] may lead to
OverflowOutcomes == {"crashed", "corrupted"}

CreateGLTexture(filename, tag) ==
    /\ pc = "alive"
    /\ stbi_flip' = TRUE
    /\ LET img == stbi_load(filename)
           textureID == glGenTextures(glTextures)
       IN
       IF ImageLoaded(img)
       THEN IF ChannelsSupported(img.colorChannels)
            THEN \* generated, bound, filled, unbound, then registered
                 /\ glTextures' = glTextures \cup {textureID}
                 /\ glBound' = glBindTexture(glTextures \cup {textureID},
                                  glBindTexture(glTextures \cup {textureID},
                                                glBound, glActive, textureID),
                                  glActive, 0)
                 /\ IF m_loadedTextures < MaxTextures
                    THEN /\ m_textureIDs' = RegisterTexture(m_textureIDs,
                                                m_loadedTextures, textureID, tag)
                         /\ m_loadedTextures' = m_loadedTextures + 1
                         /\ loadOrder' = Append(loadOrder,
                                                [tag |-> tag, ID |-> textureID])
                         /\ released' = FALSE
                         /\ last' = Call("CreateGLTexture", filename, tag,
                                         TRUE, m_loadedTextures, NoMaterial)
                         /\ UNCHANGED <<pc, oobWrite>>
                    ELSE \* the array has no element m_loadedTextures
                         \E outcome \in OverflowOutcomes :
                             /\ oobWrite' = oobWrite \cup {m_loadedTextures}
                             /\ pc' = outcome
                             /\ m_loadedTextures' =
                                    IF outcome = "corrupted"
                                    THEN m_loadedTextures + 1
                                    ELSE m_loadedTextures
                             /\ last' = Call("CreateGLTexture", filename, tag,
                                             outcome = "corrupted",
                                             m_loadedTextures, NoMaterial)
                             /\ UNCHANGED <<m_textureIDs, loadOrder, released>>
            ELSE \* generated and bound, then return false
                 /\ glTextures' = glTextures \cup {textureID}
                 /\ glBound' = glBindTexture(glTextures \cup {textureID},
                                             glBound, glActive, textureID)
                 /\ last' = Call("CreateGLTexture", filename, tag,
                                 FALSE, -1, NoMaterial)
                 /\ UNCHANGED <<m_textureIDs, m_loadedTextures, loadOrder,
                                released, pc, oobWrite>>
       ELSE /\ last' = Call("CreateGLTexture", filename, tag,
                            FALSE, -1, NoMaterial)
            /\ UNCHANGED <<m_textureIDs, m_loadedTextures, loadOrder, released,
                           pc, oobWrite, glTextures, glBound>>
    /\ UNCHANGED <<m_objectMaterials, glActive, glDeleteCalls, releases>>
    /\ UNCHANGED renderVars

---------------------------------------------------------------------------
(* BindGLTextures, DestroyGLTextures, the destructor *)

\* for (i = 0; i < m_loadedTextures; i++) glActiveTexture; glBindTexture
RECURSIVE BindLoop(_, _, _, _, _)
RECURSIVE BindLoop_KeepsActive(_, _, _, _, _)

\* a loop that binds unit i and leaves the active unit where it was
BindLoop_KeepsActive(ids, n, textures, i, gl) ==
    IF i < n
    THEN BindLoop_KeepsActive(ids, n, textures, i + 1,
                  [active |-> gl.active,
                   bound  |-> glBindTexture(textures, gl.bound, i, ids[i].ID)])
    ELSE gl

BindLoop(ids, n, textures, i, gl) ==
    IF i < n
    THEN BindLoop(ids, n, textures, i + 1,
                  [active |-> i,
                   bound  |-> glBindTexture(textures, gl.bound, i, ids[i].ID)])
    ELSE gl

\* a loop that starts at unit 1
BindGLTextures_FromUnitOne ==
    /\ pc = "alive"
    /\ LET gl == BindLoop(m_textureIDs, m_loadedTextures, glTextures, 1,
                          [active |-> glActive, bound |-> glBound])
       IN /\ glActive' = gl.active
          /\ glBound' = gl.bound
    /\ last' = Call("BindGLTextures", "", "", TRUE, m_loadedTextures, NoMaterial)
    /\ UNCHANGED <<m_textureIDs, m_loadedTextures, m_objectMaterials, stbi_flip,
                   glTextures, glDeleteCalls, pc, releases, released,
                   loadOrder, oobWrite>>
    /\ UNCHANGED renderVars

BindGLTextures ==
    /\ pc = "alive"
    /\ LET gl == BindLoop(m_textureIDs, m_loadedTextures, glTextures, 0,
                          [active |-> glActive, bound |-> glBound])
       IN /\ glActive' = gl.active
          /\ glBound' = gl.bound
    /\ last' = Call("BindGLTextures", "", "", TRUE, m_loadedTextures, NoMaterial)
    /\ UNCHANGED <<m_textureIDs, m_loadedTextures, m_objectMaterials, stbi_flip,
                   glTextures, glDeleteCalls, pc, releases, released,
                   loadOrder, oobWrite>>
    /\ UNCHANGED renderVars

\* for (i = 0; i < m_loadedTextures; i++) glDeleteTextures(1, &m_textureIDs[i].ID)
RECURSIVE DestroyLoop(_, _, _, _)
DestroyLoop(ids, n, i, gl) ==
    IF i < n
    THEN DestroyLoop(ids, n, i + 1, glDeleteTextures(gl, ids[i].ID))
    ELSE gl

DestroyEffect ==
    LET gl == DestroyLoop(m_textureIDs, m_loadedTextures, 0,
                          [textures |-> glTextures, bound |-> glBound,
                           calls |-> glDeleteCalls])
    IN /\ glTextures' = gl.textures
       /\ glBound' = gl.bound
       /\ glDeleteCalls' = gl.calls
       /\ released' = TRUE
       /\ UNCHANGED <<m_textureIDs, m_loadedTextures, m_objectMaterials,
                      stbi_flip, glActive, loadOrder, oobWrite>>

DestroyGLTextures ==
    /\ pc = "alive"
    /\ DestroyEffect
    /\ releases' = releases + 1
    /\ last' = Call("DestroyGLTextures", "", "", TRUE, m_loadedTextures, NoMaterial)
    /\ UNCHANGED pc
    /\ UNCHANGED renderVars

\* ~SceneManager(): the last call on the object
Destructor ==
    /\ pc = "alive"
    /\ DestroyEffect
    /\ pc' = "destroyed"
    /\ last' = Call("~SceneManager", "", "", TRUE, m_loadedTextures, NoMaterial)
    /\ m_pShaderManager' = "NULL"
    /\ UNCHANGED <<releases, uniforms, nullDeref, lastMode, draws>>

---------------------------------------------------------------------------
(* The lookups as calls, and LoadSceneMaterials *)

Unchanged_Scene ==
    UNCHANGED <<m_textureIDs, m_loadedTextures, m_objectMaterials, stbi_flip,
                glTextures, glBound, glActive, glDeleteCalls, pc, releases,
                released, loadOrder, oobWrite,
                m_pShaderManager, uniforms, nullDeref, lastMode, draws>>

\* a lookup that also binds the texture it found on the active unit
FindTextureIDCall_Binds(tag) ==
    /\ pc = "alive"
    /\ last' = Call("FindTextureID", "", tag, TRUE, FindTextureID(tag), NoMaterial)
    /\ glBound' = glBindTexture(glTextures, glBound, glActive, FindTextureID(tag))
    /\ UNCHANGED <<m_textureIDs, m_loadedTextures, m_objectMaterials, stbi_flip,
                   glTextures, glActive, glDeleteCalls, pc, releases,
                   released, loadOrder, oobWrite,
                   m_pShaderManager, uniforms, nullDeref, lastMode, draws>>

FindTextureIDCall(tag) ==
    /\ pc = "alive"
    /\ last' = Call("FindTextureID", "", tag, TRUE, FindTextureID(tag), NoMaterial)
    /\ Unchanged_Scene

FindTextureSlotCall(tag) ==
    /\ pc = "alive"
    /\ last' = Call("FindTextureSlot", "", tag, TRUE, FindTextureSlot(tag), NoMaterial)
    /\ Unchanged_Scene

FindMaterialCall(tag, material) ==
    /\ pc = "alive"
    /\ LET r == FindMaterial(m_objectMaterials, tag, material)
       IN last' = Call("FindMaterial", "", tag, r.ret, 0, r.material)
                      @@ [out |-> material]
    /\ Unchanged_Scene

LoadSceneMaterials ==
    /\ pc = "alive"
    /\ m_objectMaterials' = m_objectMaterials \o SceneMaterials
    /\ last' = Call("LoadSceneMaterials", "", "", TRUE, 0, NoMaterial)
    /\ UNCHANGED <<m_textureIDs, m_loadedTextures, stbi_flip, glTextures,
                   glBound, glActive, glDeleteCalls, pc, releases, released,
                   loadOrder, oobWrite>>
    /\ UNCHANGED renderVars

\* m_objectMaterials.push_back(material)
AddMaterial(material) ==
    /\ pc = "alive"
    /\ m_objectMaterials' = Append(m_objectMaterials, material)
    /\ last' = Call("push_back", "", material.tag, TRUE, 0, material)
    /\ UNCHANGED <<m_textureIDs, m_loadedTextures, stbi_flip, glTextures,
                   glBound, glActive, glDeleteCalls, pc, releases, released,
                   loadOrder, oobWrite>>
    /\ UNCHANGED renderVars

---------------------------------------------------------------------------
(* Specifications *)

RegisteredIDs ==
    { m_textureIDs[i].ID : i \in Slots \cap (0 .. (m_loadedTextures - 1)) }

\* texture objects no record refers to
LeakedTextures == glTextures \ RegisteredIDs

Decodes(filename) == stbi_load(filename).image

Supported(filename) ==
    Decodes(filename) /\ stbi_load(filename).colorChannels \in {3, 4}

\* Spec: a few loads under either tag, every kind of file, bindings and lookups
LoadBound(filename) ==
    /\ Supported(filename) => m_loadedTextures < MaxLoaded
    /\ (Decodes(filename) /\ ~Supported(filename)) =>
           Cardinality(LeakedTextures) < MaxLeaked

Next ==
    \/ \E filename \in Files, tag \in Tags :
           LoadBound(filename) /\ CreateGLTexture(filename, tag)
    \/ BindGLTextures
    \/ Destructor
    \/ \E tag \in QueryTags : FindTextureIDCall(tag)
    \/ \E tag \in QueryTags : FindTextureSlotCall(tag)

Spec == Init /\ [][Next]_vars

\* SpecCap: loads under one tag until the array is full and beyond
CapBound(filename) ==
    (Decodes(filename) /\ ~Supported(filename)) =>
        Cardinality(LeakedTextures) < MaxLeaked

NextCap ==
    \/ \E filename \in Files :
           CapBound(filename) /\ CreateGLTexture(filename, CapTag)
    \/ BindGLTextures
    \/ \E tag \in QueryTags : FindTextureSlotCall(tag)

SpecCap == Init /\ [][NextCap]_vars

\* SpecRelease: loads under one tag, explicit releases, then the destructor
NextRelease ==
    \/ \E filename \in Files :
           LoadBound(filename) /\ CreateGLTexture(filename, CapTag)
    \/ BindGLTextures
    \/ (releases < MaxReleases /\ DestroyGLTextures)
    \/ Destructor
    \/ \E tag \in QueryTags : FindTextureIDCall(tag)
    \/ \E tag \in QueryTags : FindTextureSlotCall(tag)

SpecRelease == Init /\ [][NextRelease]_vars

\* SpecScene: the scene set-up, materials and textures, and material lookups
NextScene ==
    \/ (Len(m_objectMaterials) < MaxMaterialLoads * Len(SceneMaterials)
           /\ LoadSceneMaterials)
    \/ \E tag \in MaterialTags, material \in OutMaterials :
           FindMaterialCall(tag, material)
    \/ \E filename \in Files, tag \in Tags :
           (Supported(filename) /\ m_loadedTextures < MaxLoaded)
               /\ CreateGLTexture(filename, tag)
    \/ BindGLTextures

SpecScene == Init /\ [][NextScene]_vars

\* SpecMaterial: materials pushed one by one, tags repeated, and lookups
NextMaterial ==
    \/ \E material \in MaterialInputs :
           Len(m_objectMaterials) < MaxMaterials /\ AddMaterial(material)
    \/ \E tag \in MaterialTags, material \in OutMaterials :
           FindMaterialCall(tag, material)

SpecMaterial == Init /\ [][NextMaterial]_vars

---------------------------------------------------------------------------
(* Properties *)

\* the step is a call of CreateGLTexture (last' holds the call of the step)
IsLoadStep == last'.op = "CreateGLTexture"

\* the slots of the loaded records of (ids, n) that carry the tag
SlotsWithTag(ids, n, tag) == { i \in 0 .. (n - 1) : ids[i].tag = tag }

MinOf(S) == CHOOSE i \in S : \A j \in S : i <= j

\* C1 as stated: a load of an image with 3 or 4 channels returns true, adds
\* exactly one record, and FindTextureID / FindTextureSlot of its tag then
\* give the id and the slot of the record this load created, whatever the
\* records before it.
C1_LoadResolvesToNewRecord ==
    [][ (IsLoadStep /\ Supported(last'.file)) =>
            /\ last'.ok = TRUE
            /\ m_loadedTextures' = m_loadedTextures + 1
            /\ FindTextureSlotIn(m_textureIDs', m_loadedTextures', last'.tag)
                   = m_loadedTextures
            /\ FindTextureIDIn(m_textureIDs', m_loadedTextures', last'.tag)
                   = m_textureIDs'[m_loadedTextures].ID
            /\ m_textureIDs'[m_loadedTextures].ID # -1 ]_vars

\* C1 amended: with fewer than 16 records, such a load returns true, adds
\* exactly one record, and the lookups of its tag give non-sentinel values:
\* the slot and id of the earliest record with that tag, which is the new
\* record exactly when no earlier record carries the tag.
C1_LoadResolvesToFirstMatch ==
    [][ (IsLoadStep /\ Supported(last'.file) /\ m_loadedTextures < MaxTextures) =>
            LET slot == FindTextureSlotIn(m_textureIDs', m_loadedTextures', last'.tag)
                id   == FindTextureIDIn(m_textureIDs', m_loadedTextures', last'.tag)
                earlier == SlotsWithTag(m_textureIDs, m_loadedTextures, last'.tag)
            IN /\ last'.ok = TRUE
               /\ m_loadedTextures' = m_loadedTextures + 1
               /\ slot # -1 /\ id # -1
               /\ m_textureIDs'[m_loadedTextures] =
                      [tag |-> last'.tag, ID |-> glGenTextures(glTextures)]
               /\ IF earlier = {}
                  THEN /\ slot = m_loadedTextures
                       /\ id = m_textureIDs'[m_loadedTextures].ID
                  ELSE /\ slot = MinOf(earlier)
                       /\ id = m_textureIDs[MinOf(earlier)].ID ]_vars

\* a load under a tag that an earlier record carries has just succeeded, and
\* another under a fresh tag before it
C1_Witness ==
    /\ last.op = "CreateGLTexture" /\ last.ok
    /\ m_loadedTextures = 3
    /\ m_textureIDs[0].tag = "floor"
    /\ m_textureIDs[1].tag = "screen"
    /\ m_textureIDs[2].tag = "floor"
    /\ last.tag = "floor"
    /\ FindTextureSlot("floor") = 0

\* C2: a load into a full registry returns false and adds no record: there
\* are never more than 16 records and no element outside m_textureIDs[0..15]
\* is written.
C2_CapacityGuarded ==
    /\ m_loadedTextures <= MaxTextures
    /\ oobWrite = {}
    /\ pc \notin OverflowOutcomes

\* C3: after DestroyGLTextures the registry is empty: no records, and both
\* lookups give -1 for every tag.
C3_ReleaseEmptiesRegistry ==
    (last.op = "DestroyGLTextures") =>
        /\ m_loadedTextures = 0
        /\ \A tag \in QueryTags :
               /\ FindTextureID(tag) = -1
               /\ FindTextureSlot(tag) = -1

\* C4: once DestroyGLTextures has run and no texture was loaded since, a
\* further DestroyGLTextures, the destructor's included, issues no
\* glDeleteTextures: every texture is deleted once.
C4_LaterReleaseDeletesNothing ==
    [][ (released /\ last'.op \in {"DestroyGLTextures", "~SceneManager"}) =>
            glDeleteCalls' = glDeleteCalls ]_vars

\* C5: FindMaterial on a non-empty table with a tag no material carries
\* returns false.
C5_UnmatchedMaterialNotFound ==
    ( /\ last.op = "FindMaterial"
      /\ Len(m_objectMaterials) > 0
      /\ \A i \in 1 .. Len(m_objectMaterials) :
             m_objectMaterials[i].tag # last.tag )
    => (last.ok = FALSE)

\* C6: a load of an image with an unsupported channel count leaves the live
\* texture objects and the binding of every texture unit as they were.
C6_UnsupportedLoadFreesTexture ==
    [][ (IsLoadStep /\ Decodes(last'.file) /\ ~Supported(last'.file)) =>
            /\ glTextures' = glTextures
            /\ glBound' = glBound ]_vars

\* C7: a load of an image with an unsupported channel count returns false
\* and leaves the record count and every record unchanged.
C7_UnsupportedLoadAddsNoRecord ==
    [][ (IsLoadStep /\ Decodes(last'.file) /\ ~Supported(last'.file)) =>
            /\ last'.ok = FALSE
            /\ m_loadedTextures' = m_loadedTextures
            /\ m_textureIDs' = m_textureIDs ]_vars

\* an unsupported image was just refused by a registry that holds records
C7_Witness ==
    /\ last.op = "CreateGLTexture"
    /\ last.file = "greyalpha.png"
    /\ last.ok = FALSE
    /\ m_loadedTextures = 2

\* C8: a load whose image does not decode returns false and changes neither
\* the record count, nor a record, nor the live texture objects, nor the
\* binding of a texture unit.
C8_DecodeFailureMutatesNothing ==
    [][ (IsLoadStep /\ ~Decodes(last'.file)) =>
            /\ last'.ok = FALSE
            /\ m_loadedTextures' = m_loadedTextures
            /\ m_textureIDs' = m_textureIDs
            /\ glTextures' = glTextures
            /\ glBound' = glBound ]_vars

\* a missing file was just refused, with records loaded and textures bound
C8_Witness ==
    /\ last.op = "CreateGLTexture"
    /\ last.file = "missing.jpg"
    /\ last.ok = FALSE
    /\ m_loadedTextures = 2
    /\ glBound[0] # 0

\* what a first-match scan of the loaded records must give
FirstSlot(tag) ==
    IF SlotsWithTag(m_textureIDs, m_loadedTextures, tag) = {}
    THEN -1
    ELSE MinOf(SlotsWithTag(m_textureIDs, m_loadedTextures, tag))

\* C9: FindTextureSlot gives the smallest slot below the record count whose
\* tag is the one asked for, FindTextureID the id stored in that slot, and
\* both -1 when there is none; the "/0" of the unused slots never matches.
C9_FirstMatchLookup ==
    /\ \A tag \in QueryTags :
           /\ FindTextureSlot(tag) = FirstSlot(tag)
           /\ FindTextureID(tag) =
                  IF FirstSlot(tag) = -1 THEN -1
                  ELSE m_textureIDs[FirstSlot(tag)].ID
    /\ FindTextureSlot("/0") = -1
    /\ FindTextureID("/0") = -1
    /\ (last.op = "FindTextureSlot") => (last.val = FirstSlot(last.tag))
    /\ (last.op = "FindTextureID") =>
           (last.val = IF FirstSlot(last.tag) = -1 THEN -1
                       ELSE m_textureIDs[FirstSlot(last.tag)].ID)

\* a tag carried by two records was looked up with unused slots left, and
\* the second of the two records is not the one found
C9_Witness ==
    /\ last.op = "FindTextureSlot"
    /\ last.tag = "screen"
    /\ last.val = 1
    /\ m_loadedTextures = 3
    /\ m_textureIDs[2].tag = "screen"

\* C10: the k-th successful load (from 0) has its record in slot k, and a
\* tag that FindTextureSlot resolves to a slot resolves to the same slot
\* after every further call.
C10_SlotIsLoadOrderAndStable ==
    [][ /\ Len(loadOrder') = m_loadedTextures'
        /\ \A k \in 1 .. Len(loadOrder') : m_textureIDs'[k - 1] = loadOrder'[k]
        /\ \A tag \in QueryTags :
               (FindTextureSlot(tag) >= 0) =>
                   FindTextureSlotIn(m_textureIDs', m_loadedTextures', tag)
                       = FindTextureSlot(tag) ]_vars

\* three loads succeeded around a refused one, the textures were bound, and
\* the first tag still resolves to slot 0
C10_Witness ==
    /\ Len(loadOrder) = 3
    /\ loadOrder[3].tag = "floor"
    /\ loadOrder[1].tag = "floor"
    /\ LeakedTextures # {}
    /\ glBound[2] # 0
    /\ last.op = "FindTextureSlot"
    /\ last.tag = "floor"
    /\ last.val = 0

\* C11: after BindGLTextures every unit i below the record count is bound
\* to the id of the record in slot i, no unit at or above the count has
\* changed, and binding once more leaves the same bindings.
C11_BindAllBindsSlotToUnit ==
    [][ (last'.op = "BindGLTextures") =>
            /\ \A i \in 0 .. (m_loadedTextures - 1) :
                   glBound'[i] = m_textureIDs[i].ID
            /\ \A u \in Slots :
                   (u >= m_loadedTextures) => (glBound'[u] = glBound[u])
            /\ BindLoop(m_textureIDs', m_loadedTextures', glTextures', 0,
                        [active |-> glActive', bound |-> glBound']).bound
                   = glBound' ]_vars

\* two records were just bound to units 0 and 1 while unit 2, which a
\* later load used, keeps no binding and a refused image's texture is live
C11_Witness ==
    /\ last.op = "BindGLTextures"
    /\ m_loadedTextures = 2
    /\ glBound[0] = m_textureIDs[0].ID
    /\ glBound[1] = m_textureIDs[1].ID
    /\ glBound[0] # glBound[1]
    /\ glBound[2] = 0
    /\ LeakedTextures # {}

\* the positions of the materials of the table that carry the tag
MaterialsWithTag(tag) ==
    { i \in 1 .. Len(m_objectMaterials) : m_objectMaterials[i].tag = tag }

\* C12: FindMaterial of a tag that some material of the table carries
\* returns true and leaves in the output the ambientColor, ambientStrength,
\* diffuseColor, specularColor and shininess of the earliest such material,
\* never those of a later one.
C12_FindMaterialFirstMatch ==
    (last.op = "FindMaterial" /\ MaterialsWithTag(last.tag) # {}) =>
        LET first == m_objectMaterials[MinOf(MaterialsWithTag(last.tag))]
        IN /\ last.ok = TRUE
           /\ last.mat.ambientColor = first.ambientColor
           /\ last.mat.ambientStrength = first.ambientStrength
           /\ last.mat.diffuseColor = first.diffuseColor
           /\ last.mat.specularColor = first.specularColor
           /\ last.mat.shininess = first.shininess

\* the desk's tag was looked up in a table that holds the scene's desk
\* material after another material and before a different one of that tag
C12_Witness ==
    /\ last.op = "FindMaterial"
    /\ last.tag = "deskMaterial"
    /\ Len(m_objectMaterials) = 3
    /\ m_objectMaterials[1].tag = "screenMaterial"
    /\ m_objectMaterials[2] = SceneMaterials[2]
    /\ m_objectMaterials[3].tag = "deskMaterial"
    /\ m_objectMaterials[3].shininess # last.mat.shininess
    /\ last.mat.shininess = 16

\* C13: FindMaterial on an empty table returns false for every tag and
\* leaves the caller's material as it was.
C13_EmptyTableNotFound ==
    (last.op = "FindMaterial" /\ Len(m_objectMaterials) = 0) =>
        /\ last.ok = FALSE
        /\ last.mat = last.out

\* a tag was looked up in the empty table with a material that held values
C13_Witness ==
    /\ last.op = "FindMaterial"
    /\ Len(m_objectMaterials) = 0
    /\ last.tag = "deskMaterial"
    /\ last.ok = FALSE
    /\ last.out.shininess = 77
    /\ last.mat.shininess = 77

---------------------------------------------------------------------------
(* The uniform bridge: SetShaderColor, SetShaderTexture, SetTextureUVScale *)

\* the colours passed to SetShaderColor, in tenths
Colors == {<<7, 7, 7, 10>>, <<1, 1, 1, 10>>}

\* the scale factors passed to SetTextureUVScale
UVScales == {<<1, 1>>, <<10, 10>>}

ShaderColor_KeepsFlag(u, rgba) ==
    [u EXCEPT !.objectColor = rgba]

\* setIntValue("bUseTexture", false); setVec4Value("objectColor", currentColor)
ShaderColor(u, rgba) ==
    [u EXCEPT !.bUseTexture = FALSE, !.objectColor = rgba]

\* setIntValue("bUseTexture", true); setSampler2DValue("objectTexture", FindTextureSlot(tag))
ShaderTexture(u, ids, n, tag) ==
    [u EXCEPT !.bUseTexture = TRUE,
              !.objectTexture = FindTextureSlotIn(ids, n, tag)]

\* setVec2Value("UVscale", glm::vec2(u, v))
TextureUVScale(u, uv) ==
    [u EXCEPT !.UVscale = uv]

\* what the operations of the bridge leave alone
Unchanged_Bridge ==
    UNCHANGED <<m_textureIDs, m_loadedTextures, m_objectMaterials, stbi_flip,
                glTextures, glBound, glActive, glDeleteCalls, releases,
                released, loadOrder, oobWrite, m_pShaderManager, draws>>

SetShaderColor(rgba) ==
    /\ pc = "alive"
    /\ uniforms' = IF m_pShaderManager # "NULL"
                       THEN ShaderColor(uniforms, rgba)
                       ELSE uniforms
    /\ lastMode' = "color"
    /\ last' = Call("SetShaderColor", "", "", TRUE, 0, NoMaterial) @@ [rgba |-> rgba]
    /\ UNCHANGED <<pc, nullDeref>>
    /\ Unchanged_Bridge

SetShaderTexture(textureTag) ==
    /\ pc = "alive"
    /\ uniforms' = IF m_pShaderManager # "NULL"
                       THEN ShaderTexture(uniforms, m_textureIDs, m_loadedTextures, textureTag)
                       ELSE uniforms
    /\ lastMode' = "texture"
    /\ last' = Call("SetShaderTexture", "", textureTag, TRUE, 0, NoMaterial)
    /\ UNCHANGED <<pc, nullDeref>>
    /\ Unchanged_Bridge

SetTextureUVScale(uv) ==
    /\ pc = "alive"
    /\ uniforms' = IF m_pShaderManager # "NULL"
                       THEN TextureUVScale(uniforms, uv)
                       ELSE uniforms
    /\ last' = Call("SetTextureUVScale", "", "", TRUE, 0, NoMaterial) @@ [uv |-> uv]
    /\ UNCHANGED <<pc, nullDeref, lastMode>>
    /\ Unchanged_Bridge

\* the bridge over a registry of up to MaxLoaded textures
NextShader ==
    \/ \E rgba \in Colors : SetShaderColor(rgba)
    \/ \E tag \in QueryTags : SetShaderTexture(tag)
    \/ \E uv \in UVScales : SetTextureUVScale(uv)
    \/ \E tag \in Tags : (m_loadedTextures < MaxLoaded /\ CreateGLTexture("rgb.jpg", tag))

SpecShader == Init /\ [][NextShader]_vars

\* C14: with a shader manager, after any sequence of SetShaderColor and
\* SetShaderTexture calls bUseTexture is true exactly when the later of them
\* was SetShaderTexture, and SetShaderColor stores its rgba as objectColor.
C14_ModeIsLastCall ==
    (m_pShaderManager # "NULL" /\ lastMode # "none") =>
        /\ uniforms.bUseTexture = (lastMode = "texture")
        /\ (last.op = "SetShaderColor") => (uniforms.objectColor = last.rgba)

\* a colour was set after a texture had been selected, with another uniform
\* written in between
C14_Witness ==
    /\ m_pShaderManager # "NULL"
    /\ last.op = "SetShaderColor"
    /\ last.rgba = <<7, 7, 7, 10>>
    /\ uniforms.objectColor = <<7, 7, 7, 10>>
    /\ uniforms.objectTexture = 1
    /\ uniforms.UVscale = <<10, 10>>
    /\ uniforms.bUseTexture = FALSE

---------------------------------------------------------------------------
(* SetTransformations: matrices are indexed [row][column]; a rotation by a *)
(* multiple of 90 degrees keeps integer entries                            *)

\* the scales, angles (degrees) and positions passed to SetTransformations
TransformScales == {<<1, 1, 1>>, <<2, 1, 1>>, <<1, 2, 3>>}
Angles == {0, 90, 180, 270}
Positions == {<<0, 0, 0>>, <<5, 0, 0>>, <<1, 2, 3>>}

cosDeg(d) == CASE d % 360 = 0 -> 1 [] d % 360 = 180 -> -1 [] OTHER -> 0
sinDeg(d) == CASE d % 360 = 90 -> 1 [] d % 360 = 270 -> -1 [] OTHER -> 0

\* entry [row][col] of the product A * B
Entry(A, B, row, col) ==
    A[row][1] * B[1][col] + A[row][2] * B[2][col]
        + A[row][3] * B[3][col] + A[row][4] * B[4][col]

MatMul(A, B) ==
    << <<Entry(A, B, 1, 1), Entry(A, B, 1, 2), Entry(A, B, 1, 3), Entry(A, B, 1, 4)>>,
       <<Entry(A, B, 2, 1), Entry(A, B, 2, 2), Entry(A, B, 2, 3), Entry(A, B, 2, 4)>>,
       <<Entry(A, B, 3, 1), Entry(A, B, 3, 2), Entry(A, B, 3, 3), Entry(A, B, 3, 4)>>,
       <<Entry(A, B, 4, 1), Entry(A, B, 4, 2), Entry(A, B, 4, 3), Entry(A, B, 4, 4)>> >>

\* glm::scale(scaleXYZ)
glm_scale(v) ==
    << <<v[1], 0, 0, 0>>, <<0, v[2], 0, 0>>, <<0, 0, v[3], 0>>, <<0, 0, 0, 1>> >>

\* glm::rotate(glm::radians(d), axis) about the unit axes "x", "y", "z"
glm_rotate(d, axis) ==
    CASE axis = "x" -> << <<1, 0, 0, 0>>,
                          <<0, cosDeg(d), -sinDeg(d), 0>>,
                          <<0, sinDeg(d), cosDeg(d), 0>>,
                          <<0, 0, 0, 1>> >>
      [] axis = "y" -> << <<cosDeg(d), 0, sinDeg(d), 0>>,
                          <<0, 1, 0, 0>>,
                          <<-sinDeg(d), 0, cosDeg(d), 0>>,
                          <<0, 0, 0, 1>> >>
      [] axis = "z" -> << <<cosDeg(d), -sinDeg(d), 0, 0>>,
                          <<sinDeg(d), cosDeg(d), 0, 0>>,
                          <<0, 0, 1, 0>>,
                          <<0, 0, 0, 1>> >>

\* glm::translate(positionXYZ)
glm_translate(v) ==
    << <<1, 0, 0, v[1]>>, <<0, 1, 0, v[2]>>, <<0, 0, 1, v[3]>>, <<0, 0, 0, 1>> >>

ModelView_ScaleLast(scaleXYZ, X, Y, Z, positionXYZ) ==
    MatMul(MatMul(MatMul(MatMul(glm_scale(scaleXYZ), glm_rotate(X, "x")),
                         glm_rotate(Y, "y")), glm_rotate(Z, "z")),
           glm_translate(positionXYZ))

\* modelView = translation * rotationZ * rotationY * rotationX * scale
ModelView(scaleXYZ, X, Y, Z, positionXYZ) ==
    MatMul(MatMul(MatMul(MatMul(glm_translate(positionXYZ), glm_rotate(Z, "z")),
                         glm_rotate(Y, "y")), glm_rotate(X, "x")),
           glm_scale(scaleXYZ))

SetTransformations(scaleXYZ, X, Y, Z, positionXYZ) ==
    /\ pc = "alive"
    /\ uniforms' = IF m_pShaderManager # "NULL"
                       THEN [uniforms EXCEPT !.model = ModelView(scaleXYZ, X, Y, Z, positionXYZ)]
                       ELSE uniforms
    /\ last' = Call("SetTransformations", "", "", TRUE, 0, NoMaterial)
                   @@ [scaleXYZ |-> scaleXYZ, rotation |-> <<X, Y, Z>>,
                       positionXYZ |-> positionXYZ]
    /\ UNCHANGED <<pc, nullDeref, lastMode>>
    /\ Unchanged_Bridge

NextTransform ==
    \E scaleXYZ \in TransformScales, X \in Angles, Y \in Angles, Z \in Angles,
       positionXYZ \in Positions :
        SetTransformations(scaleXYZ, X, Y, Z, positionXYZ)

SpecTransform == Init /\ [][NextTransform]_vars

\* the points the model matrix is probed with
Probes == {<<1, 0, 0>>, <<0, 1, 0>>, <<0, 0, 1>>, <<1, 2, 3>>}

\* the matrix applied to the point p (w = 1)
Transformed(M, p) ==
    <<M[1][1] * p[1] + M[1][2] * p[2] + M[1][3] * p[3] + M[1][4],
      M[2][1] * p[1] + M[2][2] * p[2] + M[2][3] * p[3] + M[2][4],
      M[3][1] * p[1] + M[3][2] * p[2] + M[3][3] * p[3] + M[3][4]>>

Scaled(p, v) == <<p[1] * v[1], p[2] * v[2], p[3] * v[3]>>
RotatedX(p, d) == <<p[1], cosDeg(d) * p[2] - sinDeg(d) * p[3], sinDeg(d) * p[2] + cosDeg(d) * p[3]>>
RotatedY(p, d) == <<cosDeg(d) * p[1] + sinDeg(d) * p[3], p[2], cosDeg(d) * p[3] - sinDeg(d) * p[1]>>
RotatedZ(p, d) == <<cosDeg(d) * p[1] - sinDeg(d) * p[2], sinDeg(d) * p[1] + cosDeg(d) * p[2], p[3]>>
Translated(p, v) == <<p[1] + v[1], p[2] + v[2], p[3] + v[3]>>

\* C15: with a shader manager, the model matrix SetTransformations stores
\* maps a point p to T(Rz(Ry(Rx(S p)))): scale first, then the rotations
\* about X, Y and Z, then the translation; unit scale with no rotation and
\* no translation stores the identity, and scale (2,1,1), rotation
\* (0,90,0), translation (5,0,0) sends (1,0,0) to (5,0,-2).
C15_ModelIsTRzRyRxS ==
    (last.op = "SetTransformations" /\ m_pShaderManager # "NULL") =>
        /\ \A p \in Probes :
             Transformed(uniforms.model, p) =
                 Translated(RotatedZ(RotatedY(RotatedX(Scaled(p, last.scaleXYZ),
                                                       last.rotation[1]),
                                              last.rotation[2]),
                                     last.rotation[3]),
                            last.positionXYZ)
        /\ (/\ last.scaleXYZ = <<1, 1, 1>>
            /\ last.rotation = <<0, 0, 0>>
            /\ last.positionXYZ = <<0, 0, 0>>)
               => uniforms.model = glm_scale(<<1, 1, 1>>)
        /\ (/\ last.scaleXYZ = <<2, 1, 1>>
            /\ last.rotation = <<0, 90, 0>>
            /\ last.positionXYZ = <<5, 0, 0>>)
               => Transformed(uniforms.model, <<1, 0, 0>>) = <<5, 0, -2>>

\* the claim's example was stored
C15_Witness ==
    /\ last.op = "SetTransformations"
    /\ m_pShaderManager # "NULL"
    /\ last.scaleXYZ = <<2, 1, 1>>
    /\ last.rotation = <<0, 90, 0>>
    /\ last.positionXYZ = <<5, 0, 0>>
    /\ Transformed(uniforms.model, <<1, 0, 0>>) = <<5, 0, -2>>
    /\ uniforms.model[3][1] = -2

---------------------------------------------------------------------------
(* SetShaderMaterial and SetupSceneLights *)

\* what a call through a NULL m_pShaderManager may do: stop the process, or
\* run on and reach the program's uniforms
NullCallOutcomes == {"crashed", "corrupted"}

\* SetShaderMaterial up to its writes: whether it goes on to write, and the
\* material it writes; material is the local OBJECT_MATERIAL as declared
MaterialToWrite(materials, materialTag, material) ==
    IF Len(materials) > 0
        THEN LET r == FindMaterial(materials, materialTag, material)
             IN [write |-> r.ret, material |-> r.material]
        ELSE [write |-> FALSE, material |-> material]

\* the five setVec3Value / setFloatValue calls on material.*
ShaderMaterial(u, material) ==
    [u EXCEPT !.material = MaterialUniforms(material)]

\* the local OBJECT_MATERIAL is declared without an initial value: it holds
\* any value until FindMaterial fills it
SetShaderMaterial(materialTag) ==
    /\ pc = "alive"
    /\ \E material \in OutMaterials :
         LET w == MaterialToWrite(m_objectMaterials, materialTag, material)
         IN /\ last' = Call("SetShaderMaterial", "", materialTag, w.write, 0, w.material)
            /\ IF ~w.write
                 THEN UNCHANGED <<uniforms, pc, nullDeref>>
                 ELSE IF m_pShaderManager # "NULL"
                        THEN /\ uniforms' = ShaderMaterial(uniforms, w.material)
                             /\ UNCHANGED <<pc, nullDeref>>
                        ELSE /\ nullDeref' = TRUE
                             /\ \E outcome \in NullCallOutcomes :
                                  /\ pc' = outcome
                                  /\ uniforms' = IF outcome = "corrupted"
                                                     THEN ShaderMaterial(uniforms, w.material)
                                                     ELSE uniforms
    /\ UNCHANGED lastMode
    /\ Unchanged_Bridge

\* a light source; colours and positions in hundredths, focalStrength as is
Light(position, diffuseColor, specularColor, focalStrength, specularIntensity) ==
    [position |-> position, diffuseColor |-> diffuseColor,
     specularColor |-> specularColor, focalStrength |-> focalStrength,
     specularIntensity |-> specularIntensity]

\* bUseLighting, globalAmbientColor and lightSources[0 .. 2]
SceneLights(u) ==
    [u EXCEPT !.bUseLighting = TRUE,
              !.globalAmbientColor = <<20, 20, 20>>,
              !.lightSources =
                  << Light(<<0, 1200, 0>>, <<40, 40, 40>>, <<700, 700, 700>>, 32, 20),
                     Light(<<-980, 200, 300>>, <<100, 85, 50>>, <<100, 85, 50>>, 32, 20),
                     Light(<<800, 200, 300>>, <<60, 80, 100>>, <<60, 80, 100>>, 32, 20) >>]

SetupSceneLights ==
    /\ pc = "alive"
    /\ uniforms' = IF m_pShaderManager = "NULL" THEN uniforms ELSE SceneLights(uniforms)
    /\ last' = Call("SetupSceneLights", "", "", TRUE, 0, NoMaterial)
    /\ UNCHANGED <<pc, nullDeref, lastMode>>
    /\ Unchanged_Bridge

\* every operation of the bridge, over the scene's material table or none
\* and a registry of up to MaxLeaked textures
NextBridge ==
    \/ (Len(m_objectMaterials) < MaxMaterialLoads * Len(SceneMaterials)
           /\ LoadSceneMaterials)
    \/ (m_loadedTextures < MaxLeaked /\ CreateGLTexture("rgb.jpg", CapTag))
    \/ SetTransformations(<<2, 1, 1>>, 0, 90, 0, <<5, 0, 0>>)
    \/ \E rgba \in Colors : SetShaderColor(rgba)
    \/ SetShaderTexture(CapTag)
    \/ \E uv \in UVScales : SetTextureUVScale(uv)
    \/ \E tag \in MaterialTags : SetShaderMaterial(tag)
    \/ SetupSceneLights

SpecBridge == Init /\ [][NextBridge]_vars

\* C17: SetShaderMaterial with a tag that no entry of a non-empty material
\* table carries writes none of the five material.* uniforms (last.ok tells
\* whether the call went on to its five writes).
C17_UnmatchedMaterialWritesNothing ==
    (/\ last.op = "SetShaderMaterial"
     /\ Len(m_objectMaterials) > 0
     /\ MaterialsWithTag(last.tag) = {}) =>
        last.ok = FALSE

\* C20: while m_pShaderManager is NULL no operation writes a uniform or
\* calls through the NULL pointer, whatever the registry and the material
\* table hold.
C20_NullManagerWritesNothing ==
    [][ (m_pShaderManager = "NULL") =>
            /\ uniforms' = uniforms
            /\ nullDeref' = FALSE ]_vars

---------------------------------------------------------------------------
(* PrepareScene and RenderScene *)

\* the five CreateGLTexture calls of LoadSceneTextures
SceneTextures ==
    << [filename |-> "textures/Wood-Floor_texture2.jpg",   tag |-> "floor"],
       [filename |-> "textures/Monitor-Screen_texture.jpg", tag |-> "screen"],
       [filename |-> "textures/Desk_texture2.jpg",          tag |-> "desk"],
       [filename |-> "textures/Keyboard_texture.jpg",       tag |-> "keyboard"],
       [filename |-> "textures/glass_texture.jpg",          tag |-> "glass"] >>

\* what may lie at the five paths: each holds an image like one of Files
SceneDisks == [1 .. Len(SceneTextures) -> Files]

\* CreateGLTexture as a function of the registry and the GL state st, for a
\* registry with a free slot
LoadTexture(st, filename, tag) ==
    LET img == stbi_load(filename)
        textureID == glGenTextures(st.textures)
        textures == st.textures \cup {textureID}
    IN IF ~ImageLoaded(img)
       THEN [st EXCEPT !.flip = TRUE]
       ELSE IF ~ChannelsSupported(img.colorChannels)
            THEN [st EXCEPT !.flip = TRUE,
                            !.textures = textures,
                            !.bound = glBindTexture(textures, st.bound, st.active, textureID)]
            ELSE [st EXCEPT !.flip = TRUE,
                            !.textures = textures,
                            !.bound = glBindTexture(textures,
                                          glBindTexture(textures, st.bound, st.active, textureID),
                                          st.active, 0),
                            !.ids = RegisterTexture(st.ids, st.n, textureID, tag),
                            !.n = st.n + 1,
                            !.order = Append(st.order, [tag |-> tag, ID |-> textureID])]

\* the calls i .. 5 of LoadSceneTextures; the return values are dropped
RECURSIVE LoadSceneTexturesFrom(_, _, _)
LoadSceneTexturesFrom(st, disk, i) ==
    IF i <= Len(SceneTextures)
    THEN LoadSceneTexturesFrom(LoadTexture(st, disk[i], SceneTextures[i].tag), disk, i + 1)
    ELSE st

\* the five loads, then BindGLTextures()
LoadSceneTextures(st, disk) ==
    LET loaded == LoadSceneTexturesFrom(st, disk, 1)
        gl == BindLoop(loaded.ids, loaded.n, loaded.textures, 0,
                       [active |-> loaded.active, bound |-> loaded.bound])
    IN [loaded EXCEPT !.active = gl.active, !.bound = gl.bound]

\* LoadSceneMaterials(); LoadSceneTextures(); SetupSceneLights(); the mesh
\* loads of m_basicMeshes are outside this state
PrepareScene(disk) ==
    /\ pc = "alive"
    /\ m_loadedTextures + Len(SceneTextures) <= MaxTextures
    /\ m_objectMaterials' = m_objectMaterials \o SceneMaterials
    /\ LET st == LoadSceneTextures(
                     [ids |-> m_textureIDs, n |-> m_loadedTextures,
                      textures |-> glTextures, bound |-> glBound,
                      active |-> glActive, flip |-> stbi_flip,
                      order |-> loadOrder], disk)
       IN /\ m_textureIDs' = st.ids
          /\ m_loadedTextures' = st.n
          /\ glTextures' = st.textures
          /\ glBound' = st.bound
          /\ glActive' = st.active
          /\ stbi_flip' = st.flip
          /\ loadOrder' = st.order
          /\ released' = IF st.n > m_loadedTextures THEN FALSE ELSE released
    /\ uniforms' = IF m_pShaderManager = "NULL" THEN uniforms ELSE SceneLights(uniforms)
    /\ last' = Call("PrepareScene", "", "", TRUE, 0, NoMaterial) @@ [disk |-> disk]
    /\ UNCHANGED <<glDeleteCalls, pc, releases, oobWrite,
                   m_pShaderManager, nullDeref, lastMode, draws>>

\* the calls RenderScene makes on the bridge and on m_basicMeshes
Transform == [op |-> "SetTransformations"]
MaterialCall(tag) == [op |-> "SetShaderMaterial", tag |-> tag]
TextureCall(tag) == [op |-> "SetShaderTexture", tag |-> tag]
UVScaleCall(uv) == [op |-> "SetTextureUVScale", uv |-> uv]
ColorCall(rgba) == [op |-> "SetShaderColor", rgba |-> rgba]
Draw(mesh) == [op |-> "Draw", mesh |-> mesh]

\* 192.0f / 255.0f three times and alpha 1.0f, in 255ths
Silver == <<192, 192, 192, 255>>

\* an object drawn with a material and a texture
Textured(material, texture, uv, mesh) ==
    <<Transform, MaterialCall(material), TextureCall(texture), UVScaleCall(uv), Draw(mesh)>>

\* an object drawn in silver with no material call
Flat == <<Transform, ColorCall(Silver), Draw("Box")>>

\* a desk part
DeskBox == Textured("deskMaterial", "desk", <<1, 1>>, "Box")

\* a monitor's screen
ScreenBox == Textured("screenMaterial", "screen", <<1, 1>>, "Box")

\* the calls of RenderScene in source order
RenderScript ==
    Textured("floorMaterial", "floor", <<10, 10>>, "Plane")
        \o Textured("deskMaterial", "desk", <<1, 1>>, "Prism")
        \o <<Transform, ColorCall(Silver), MaterialCall("keyboardMaterial"), Draw("Box")>>
        \o <<Transform, TextureCall("keyboard"), UVScaleCall(<<1, 1>>), Draw("Box")>>
        \o DeskBox \o DeskBox \o DeskBox \o DeskBox
        \o DeskBox \o DeskBox \o DeskBox \o DeskBox
        \o Flat \o Flat \o ScreenBox \o Flat
        \o Flat \o Flat \o ScreenBox \o Flat
        \o Flat \o Flat \o ScreenBox \o Flat

\* call i of the script on the render state r; material is what the local
\* OBJECT_MATERIAL of SetShaderMaterial holds before FindMaterial, outcome
\* what a call through the NULL pointer leads to.  The matrix a scene object
\* gets has fractional entries and is kept as the call that stored it.
RenderCall(r, i, material, outcome) ==
    LET call == RenderScript[i]
        hasShader == m_pShaderManager # "NULL"
    IN CASE call.op = "SetTransformations" ->
              IF hasShader
              THEN [r EXCEPT !.uniforms.model = <<"modelView", i>>,
                             !.written = @ \cup {"model"}]
              ELSE r
         [] call.op = "SetShaderColor" ->
              IF hasShader
              THEN [r EXCEPT !.uniforms = ShaderColor(@, call.rgba),
                             !.written = @ \cup {"mode"},
                             !.lastMode = "color"]
              ELSE [r EXCEPT !.lastMode = "color"]
         [] call.op = "SetShaderTexture" ->
              IF hasShader
              THEN [r EXCEPT !.uniforms = ShaderTexture(@, m_textureIDs,
                                                        m_loadedTextures, call.tag),
                             !.written = @ \cup {"mode"},
                             !.lastMode = "texture"]
              ELSE [r EXCEPT !.lastMode = "texture"]
         [] call.op = "SetTextureUVScale" ->
              IF hasShader
              THEN [r EXCEPT !.uniforms = TextureUVScale(@, call.uv),
                             !.written = @ \cup {"UVscale"}]
              ELSE r
         [] call.op = "SetShaderMaterial" ->
              LET w == MaterialToWrite(m_objectMaterials, call.tag, material)
              IN IF ~w.write
                 THEN r
                 ELSE IF hasShader
                      THEN [r EXCEPT !.uniforms = ShaderMaterial(@, w.material),
                                     !.written = @ \cup {"material"}]
                      ELSE [r EXCEPT !.nullDeref = TRUE,
                                     !.pc = outcome,
                                     !.uniforms = IF outcome = "corrupted"
                                                      THEN ShaderMaterial(@, w.material)
                                                      ELSE @]
         [] call.op = "Draw" ->
              [r EXCEPT !.draws = Append(@, [call |-> i,
                                             mesh |-> call.mesh,
                                             bUseTexture |-> r.uniforms.bUseTexture,
                                             objectTexture |-> r.uniforms.objectTexture,
                                             written |-> r.written]),
                        !.written = {}]

\* the calls i .. of the script, until the process stops
RECURSIVE RenderFrom(_, _, _, _)
RenderFrom(r, i, material, outcome) ==
    IF i <= Len(RenderScript) /\ r.pc = "alive"
    THEN RenderFrom(RenderCall(r, i, material, outcome), i + 1, material, outcome)
    ELSE r

RenderScene ==
    /\ pc = "alive"
    /\ \E material \in OutMaterials, outcome \in NullCallOutcomes :
         LET r == RenderFrom([uniforms |-> uniforms, written |-> {}, draws |-> << >>,
                              pc |-> pc, nullDeref |-> nullDeref, lastMode |-> lastMode],
                             1, material, outcome)
         IN /\ uniforms' = r.uniforms
            /\ draws' = r.draws
            /\ pc' = r.pc
            /\ nullDeref' = r.nullDeref
            /\ lastMode' = r.lastMode
    /\ last' = Call("RenderScene", "", "", TRUE, 0, NoMaterial)
    /\ UNCHANGED <<m_textureIDs, m_loadedTextures, m_objectMaterials, stbi_flip,
                   glTextures, glBound, glActive, glDeleteCalls, releases,
                   released, loadOrder, oobWrite, m_pShaderManager>>

\* the program: PrepareScene once, then RenderScene for every frame
NextRender ==
    \/ \E disk \in SceneDisks : (last.op = "SceneManager" /\ PrepareScene(disk))
    \/ (last.op # "SceneManager" /\ RenderScene)
    \/ Destructor

SpecRender == Init /\ [][NextRender]_vars

\* C16: in every run of PrepareScene and RenderScene, whichever of the five
\* images load, no draw is issued while bUseTexture is true and
\* objectTexture is the sentinel -1.
C16_NoDrawWithUnresolvedSlot ==
    \A k \in 1 .. Len(draws) :
        ~(draws[k].bUseTexture /\ draws[k].objectTexture = -1)

\* C18: every draw of RenderScene has, since the draw before it, a write of
\* the model matrix, of the render mode and of the material, and in texture
\* mode of the UV scale.
C18_EveryDrawRespecifiesState ==
    \A k \in 1 .. Len(draws) :
        /\ {"model", "mode", "material"} \subseteq draws[k].written
        /\ draws[k].bUseTexture => ("UVscale" \in draws[k].written)

---------------------------------------------------------------------------
(* CreateGLTexture after BindGLTextures *)

\* every unit below the record count holds the ID of its record, as
\* BindGLTextures leaves them
UnitsBound ==
    \A i \in 0 .. (m_loadedTextures - 1) : glBound[i] = m_textureIDs[i].ID

\* C19 as stated: a CreateGLTexture call made after BindGLTextures, whether
\* it succeeds or fails, leaves every texture unit below the record count
\* of before the call bound to the ID of the record of that slot.
C19_LoadKeepsBindings ==
    [][ (IsLoadStep /\ UnitsBound) =>
            \A i \in 0 .. (m_loadedTextures - 1) : glBound'[i] = m_textureIDs[i].ID ]_vars

\* C19 as the code has it: such a call leaves every unit below the record
\* count bound to its record's ID except the last of them, the unit that
\* BindGLTextures left active; that unit keeps its binding only when the
\* image does not decode.
C19_LoadKeepsOtherUnits ==
    [][ (IsLoadStep /\ UnitsBound) =>
            /\ \A i \in 0 .. (m_loadedTextures - 2) : glBound'[i] = m_textureIDs[i].ID
            /\ (~Decodes(last'.file) /\ m_loadedTextures > 0) =>
                   glBound'[m_loadedTextures - 1] = m_textureIDs[m_loadedTextures - 1].ID
            /\ (Decodes(last'.file) /\ m_loadedTextures > 0) =>
                   glBound'[m_loadedTextures - 1] # m_textureIDs[m_loadedTextures - 1].ID ]_vars

\* a third texture was loaded after BindGLTextures had bound the first two:
\* unit 0 still holds the first, unit 1 holds nothing
C19_Witness ==
    /\ last.op = "CreateGLTexture"
    /\ last.ok
    /\ m_loadedTextures = 3
    /\ glActive = 1
    /\ glBound[0] = m_textureIDs[0].ID
    /\ glBound[1] = 0
    /\ m_textureIDs[1].ID # 0

---------------------------------------------------------------------------
(* The lookups among the operations that write what they read *)

\* the three lookups over registries of up to MaxLoaded textures, bound or
\* not, the scene's material table or none, and uniforms that were written
NextLookup ==
    \/ \E tag \in Tags : (m_loadedTextures < MaxLoaded /\ CreateGLTexture("rgb.jpg", tag))
    \/ BindGLTextures
    \/ (Len(m_objectMaterials) < MaxMaterialLoads * Len(SceneMaterials)
           /\ LoadSceneMaterials)
    \/ SetShaderTexture(CapTag)
    \/ \E tag \in QueryTags : FindTextureIDCall(tag)
    \/ \E tag \in QueryTags : FindTextureSlotCall(tag)
    \/ \E tag \in MaterialTags, material \in OutMaterials :
           FindMaterialCall(tag, material)

SpecLookup == Init /\ [][NextLookup]_vars

\* the calls of FindTextureID, FindTextureSlot and FindMaterial
Lookups == {"FindTextureID", "FindTextureSlot", "FindMaterial"}

\* C21: FindTextureID, FindTextureSlot and FindMaterial leave the record
\* count, every texture record, the material list, the texture-unit
\* bindings and the uniforms as they were, and the same lookup made again
\* right after, with the same arguments, returns what the call returned.
C21_LookupsReadOnly ==
    [][ (last'.op \in Lookups) =>
            /\ m_loadedTextures' = m_loadedTextures
            /\ m_textureIDs' = m_textureIDs
            /\ m_objectMaterials' = m_objectMaterials
            /\ glBound' = glBound
            /\ uniforms' = uniforms
            /\ (last'.op = "FindTextureID") =>
                   FindTextureIDIn(m_textureIDs', m_loadedTextures', last'.tag) = last'.val
            /\ (last'.op = "FindTextureSlot") =>
                   FindTextureSlotIn(m_textureIDs', m_loadedTextures', last'.tag) = last'.val
            /\ (last'.op = "FindMaterial") =>
                   FindMaterial(m_objectMaterials', last'.tag, last'.out)
                       = [ret |-> last'.ok, material |-> last'.mat] ]_vars

\* a texture was looked up and found while two textures were bound to their
\* units, a sampler uniform was set and the material table was loaded
C21_Witness ==
    /\ last.op = "FindTextureID"
    /\ last.tag = "screen"
    /\ last.val = m_textureIDs[1].ID
    /\ m_loadedTextures = 2
    /\ glBound[0] = m_textureIDs[0].ID
    /\ glBound[1] = m_textureIDs[1].ID
    /\ glActive = 1
    /\ uniforms.bUseTexture
    /\ Len(m_objectMaterials) = Len(SceneMaterials)

====
